---------------------------- MODULE Spec2Model ----------------------------
(***************************************************************************)
(* Replication engine of helpers/replication.py: the mapping store         *)
(* (ReplicationStore), the transcription routine                           *)
(* (ReplicationManager._copy_message), the real-time listener              *)
(* (handle_new_message) and the backfill job (backfill), for one           *)
(* (source, target) pair.                                                  *)
(*                                                                         *)
(* The engine runs on one asyncio event loop: the code between two awaits  *)
(* is atomic, and tasks interleave at the awaits only.  Every action below *)
(* is one such segment: it starts where a task is resumed (or created) and *)
(* runs to the next await of that task.                                    *)
(***************************************************************************)
EXTENDS Integers, Sequences, FiniteSets, TLC

\* ------------------------------------------------------------------ bounds
MaxId     == 3  \* messages the source channel may come to hold (ids 1..MaxId)
BatchSize == 2  \* batch_size of backfill (100 in the code), scaled down
ScanCap   == 6  \* safety limit on offset (100000 in the code), scaled down
MaxPosts  == 4  \* messages the target channel may come to hold

MaxRetry  == 3  \* retry_count < 3: retries of one _copy_message call

MaxTargets == 2  \* target channels
MaxUpdates == 2  \* updates delivered to the listener
MaxTasks   == 2  \* _backfill_loop tasks created

MaxHistory == 12 \* messages of the long history the paging loop runs over
MaxBatch   == 4  \* batch sizes 1..MaxBatch of the paging loop
MaxRowId   == 2  \* source message ids 1..MaxRowId of the table's rows
MaxTid     == 2  \* target message ids 1..MaxTid of the table's rows

Tasks == {"t1", "t2"}      \* concurrently running handler / backfill tasks
Ids   == 1..MaxId

Max(a, b) == IF a >= b THEN a ELSE b
Min(a, b) == IF a <= b THEN a ELSE b
MinOf(S)  == CHOOSE x \in S : \A y \in S : x <= y
MaxOf(S)  == CHOOSE x \in S : \A y \in S : x >= y

\* ------------------------------------------------------- source messages
\* A pyrogram Message as _copy_message reads it: the service flag,
\* media_group_id (0: none), reply_to_message_id (0: none) and whether it
\* carries a poll.
Msg(s, g, r) == [svc |-> s, grp |-> g, reply |-> r, poll |-> FALSE]

PollMsg(r) == [svc |-> FALSE, grp |-> 0, reply |-> r, poll |-> TRUE]

\* Channel contents the model draws from (fixed per behaviour).
Thread     == [m \in Ids |-> Msg(FALSE, 0, m - 1)]
Album      == [m \in Ids |-> IF m <= 3 THEN Msg(FALSE, 1, 0) ELSE Msg(FALSE, 0, 0)]
AlbumReply == [m \in Ids |-> IF m = 1 THEN Msg(FALSE, 0, 0) ELSE Msg(FALSE, 1, 1)]
Service    == [m \in Ids |-> IF m = 1 THEN Msg(TRUE, 0, 0)
                             ELSE Msg(FALSE, 0, IF m >= 3 THEN m - 1 ELSE 0)]
Channels   == {Thread, Album, AlbumReply, Service}

\* A channel that starts with a poll, and the channels the fault
\* specifications draw from.
Polls         == [m \in Ids |-> IF m = 1 THEN PollMsg(0) ELSE Msg(FALSE, 0, 0)]
FaultChannels == {Thread, Album, Polls}

VARIABLES
  chan,       \* the source channel's messages, by id
  hist,       \* ids 1..hist exist in the source channel
  store,      \* message_map: source id -> target id (0: no row)
  cursor,     \* sync_state.last_msg_id of the pair (0: no row)
  cache,      \* _media_group_cache: media groups already dispatched
  target,     \* the target channel: the messages submitted to it, by id
  tasks,      \* the running coroutines
  calls,      \* history: two _copy_message calls completed in a row for
              \*   one message, nothing else having happened in between
  called,     \* history: album members on which _copy_message completed
  clean,      \* history: no platform error and no crash so far
  jobResult,  \* history: what a backfill returned in the last step
  mappings,   \* cfg["replication_mappings"]: the list of mapping rules
  enabled,    \* cfg["replication_enabled"]
  op,         \* history: the last add_mapping / remove_mapping call
  lsn,        \* the handle_new_message coroutine fanning out over targets
  rstore,     \* message_map rows of all pairs: <<source, id, target>>
  rcursor,    \* sync_state of all pairs: <<source, target>> -> last_msg_id
  rposts,     \* submissions the fan-out made: <<source, id, target>>
  run,        \* history: the current or last handle_new_message invocation
  updates,    \* history: number of updates delivered to the listener
  backfillTasks, \* self.backfill_tasks: task_key -> task (0: no entry)
  loops,      \* the _backfill_loop tasks ever created, by task number
  scan,       \* the paging loop of one backfill over a long history
  message_map, \* the rows of table message_map
  lastPut,    \* history: the last set_mapping call and the table before it
  link,       \* the last text given to the URL helpers, and their answers
  bypass,  \* the _bypass_restriction calls and the downloads directory
  submit,  \* one _copy_message call on a message of a singular kind
  rewrite   \* one message's text or caption on its way to the target

\* One (source, target) pair in detail: store, cursor, both channels and the
\* coroutines working on the pair.
eng == <<chan, hist, store, cursor, cache, target, tasks, calls, called,
         clean, jobResult>>

\* The manager around it: rules, fan-out over targets, continuous tasks.
mgr == <<mappings, enabled, op, lsn, rstore, rcursor, rposts, run, updates,
         backfillTasks, loops>>

\* Parts of the program taken on their own.
units == <<scan, message_map, lastPut, link, bypass, submit, rewrite>>

vars == <<chan, hist, store, cursor, cache, target, tasks, calls, called,
          clean, jobResult, mappings, enabled, op, lsn, rstore, rcursor,
          rposts, run, updates, backfillTasks, loops, scan, message_map,
          lastPut, link,
          bypass,
          submit,
          rewrite>>

\* ------------------------------------------------------ ReplicationStore
GetTargetMsgId(m) == store[m]

\* Mutant of IsCloned: the lookup never finds the row.
IsClonedNever(m) == FALSE

IsCloned(m) == GetTargetMsgId(m) # 0

SetMapping(st, m, tid) == [st EXCEPT ![m] = tid]

GetLastSyncedId == cursor

\* Mutant of SetLastSyncedId: the cursor row is not written.
SetLastSyncedIdLost(cur, m) == cur

SetLastSyncedId(cur, m) == m

\* --------------------------------------------------------- the platform
\* get_chat_history(source, limit, offset): newest first, the `offset`
\* newest messages skipped.
GetChatHistory(h, limit, offset) ==
  [j \in 1..Min(limit, Max(h - offset, 0)) |-> h - offset - (j - 1)]

\* get_media_group(source, id): the members of the message's album.
GetMediaGroup(m) == {x \in 1..hist : chan[x].grp = chan[m].grp}

\* The k-th smallest element of S.
Nth(S, k) == CHOOSE x \in S : Cardinality({y \in S : y <= x}) = k

\* send_message / send_photo / ...: one new target message.
SendSingle(tg, m, r) == Append(tg, [src |-> m, reply |-> r, kind |-> "single"])

\* copy_media_group: the album's members posted as one group, in id order.
CopyMediaGroup(tg, msgs, r) ==
  tg \o [k \in 1..Cardinality(msgs) |->
           [src |-> Nth(msgs, k), reply |-> r, kind |-> "group"]]

\* ------------------------------------------------------------ coroutines
NoCall  == [msg |-> 0, ret |-> 0, sent |-> 0, raced |-> FALSE]
NoCalls == <<NoCall, NoCall>>

Idle == [pc |-> "idle", kind |-> "none", msg |-> 0, reply |-> 0,
         raced |-> FALSE, group |-> {},
         lastSynced |-> 0, offset |-> 0, batch |-> <<>>, idx |-> 0,
         processed |-> 0, cloned |-> 0, skipped |-> 0, failed |-> 0,
         n0 |-> 0, prevItem |-> 0, ordered |-> TRUE, maxSeen |-> 0,
         arrived |-> FALSE,
         retry |-> 0, floods |-> 0, owed |-> FALSE, errs |-> 0, floor |-> 0,
         item |-> 0, later |-> FALSE]

NoResult == [done |-> FALSE, processed |-> 0, cloned |-> 0, skipped |-> 0,
             failed |-> 0, n0 |-> 0, maxSeen |-> 0, cursor |-> 0,
             arrived |-> FALSE, capHit |-> FALSE, fetchErr |-> FALSE,
             batches |-> 0, errs |-> 0, later |-> FALSE]

InCopy(tk) == tk.pc \in {"getgroup", "copygroup", "sendpoll", "send", "bypass"}
AllIdle    == \A t \in Tasks : tasks[t].pc = "idle"

\* ------------------------------------------------------ the manager's state
Sources == {1, 2}
Targets == 1..MaxTargets
Pairs   == Sources \X Targets
TaskIds == 1..MaxTasks

\* One entry of cfg["replication_mappings"].
Rule(s, t, e) == [source |-> s, target |-> t, enabled |-> e]

NoOp    == [kind |-> "none", s |-> 0, t |-> 0, present |-> FALSE,
            before |-> <<>>]
NoMsg   == [id |-> 0, chat |-> 0, outgoing |-> FALSE, edited |-> FALSE]
LsnIdle == [pc |-> "idle", msg |-> NoMsg, targets |-> <<>>, k |-> 0]
NoRun   == [msg |-> NoMsg, targets |-> <<>>, invoked |-> {}, raised |-> {},
            on |-> FALSE, done |-> FALSE]
NoLoop  == [pair |-> <<0, 0>>, st |-> "none", cancel |-> FALSE, work |-> 0]

NoScan  == [pc |-> "idle", h |-> 0, bs |-> 0, ls |-> 0, offset |-> 0,
            scanned |-> 0]

NoPut   == [key |-> <<0, 0, 0>>, tid |-> 0, before |-> {}]
NoLink  == [op |-> "none", text |-> <<>>, hosts |-> <<>>,
            supported |-> FALSE, url |-> <<>>]

\* _bypass_restriction at rest: no call running, no file on disk.
Callers  == {"a", "b"}
NoBypassCall == [pc |-> "idle", msg |-> 0, kind |-> "none", path |-> FALSE,
                 had |-> FALSE, last |-> "none", ret |-> "none"]
NoBypass == [run |-> [c \in Callers |-> NoBypassCall], disk |-> {}]

\* No _copy_message call on a message of a singular kind is running.
NoSubmit == [pc |-> "idle", msg |-> 0, kind |-> "none", ops |-> <<>>,
             ret |-> "none"]

\* No text or caption is being replicated.
NoRewrite == [pc |-> "idle", grouped |-> FALSE, rows |-> <<>>, text |-> <<>>,
              out |-> <<>>]

\* The parts taken on their own, at rest.
UnitsIdle ==
  /\ rewrite = NoRewrite
  /\ submit = NoSubmit
  /\ bypass = NoBypass
  /\ scan = NoScan
  /\ message_map = {}
  /\ lastPut = NoPut
  /\ link = NoLink

\* The manager at rest with replication enabled and the rule of the pair
\* the detailed model works on.
ManagerIdle ==
  /\ mappings = <<Rule(1, 1, TRUE)>>
  /\ enabled = TRUE
  /\ op = NoOp
  /\ lsn = LsnIdle
  /\ rstore = {}
  /\ rcursor = [p \in Pairs |-> 0]
  /\ rposts = {}
  /\ run = NoRun
  /\ updates = 0
  /\ backfillTasks = [p \in Pairs |-> 0]
  /\ loops = [i \in TaskIds |-> NoLoop]

\* The detailed pair at rest.
EngineIdle ==
  /\ chan = Thread
  /\ hist = 0
  /\ store = [m \in Ids |-> 0]
  /\ cursor = 0
  /\ cache = {}
  /\ target = <<>>
  /\ tasks = [t \in Tasks |-> Idle]
  /\ calls = NoCalls
  /\ called = {}
  /\ clean = TRUE
  /\ jobResult = NoResult

Init ==
  /\ chan \in Channels
  /\ hist = 0
  /\ store = [m \in Ids |-> 0]
  /\ cursor = 0
  /\ cache = {}
  /\ target = <<>>
  /\ tasks = [t \in Tasks |-> Idle]
  /\ calls = NoCalls
  /\ called = {}
  /\ clean = TRUE
  /\ jobResult = NoResult
  /\ ManagerIdle
  /\ UnitsIdle

\* ------------------------------------------------------ history variables
Completed(m, r, n, rc) == [msg |-> m, ret |-> r, sent |-> n, raced |-> rc]

\* The step completes the call c (NoCall: none), leaves a call for message m
\* in flight (0: none), meets no platform error or crash (ok), and returns
\* res from a backfill (NoResult: no backfill returns).
History(c, m, ok, res) ==
  /\ calls' = IF c # NoCall
              THEN IF calls[2] # NoCall /\ calls[2].msg = c.msg THEN <<calls[2], c>>
                   ELSE IF calls[2] = NoCall /\ calls[1].msg = c.msg THEN <<calls[1], c>>
                   ELSE <<c, NoCall>>
              ELSE IF m # 0 /\ calls[1].msg = m THEN calls ELSE NoCalls
  /\ clean' = (clean /\ ok)
  /\ called' = IF c # NoCall /\ chan[c.msg].grp # 0 THEN called \cup {c.msg}
               ELSE called
  /\ jobResult' = res

\* --------------------------------------------------------- _copy_message
\* Mutant of ResolveReply: the reply reference is dropped.
ResolveReplyNone(m) == 0

\* Mutant of ResolveReply: without a row the source id is passed on.
ResolveReplyRaw(m) ==
  IF chan[m].reply = 0 THEN 0
  ELSE IF IsCloned(chan[m].reply) THEN GetTargetMsgId(chan[m].reply)
  ELSE chan[m].reply

\* reply_to_msg_id of the copy: the target id mapped for the replied-to
\* message, None (0) when the message is no reply or that row is missing.
ResolveReply(m) ==
  IF chan[m].reply # 0 THEN GetTargetMsgId(chan[m].reply) ELSE 0

\* Mutant of CopyEntry: the service test is left out.
CopyEntryNoService(m) ==
  IF IsCloned(m) THEN [pc |-> "ret", ret |-> GetTargetMsgId(m), reply |-> 0]
  ELSE IF chan[m].grp # 0
       THEN IF chan[m].grp \in cache
            THEN [pc |-> "ret", ret |-> 0, reply |-> 0]
            ELSE [pc |-> "getgroup", ret |-> 0, reply |-> ResolveReply(m)]
  ELSE IF chan[m].poll THEN [pc |-> "sendpoll", ret |-> 0, reply |-> ResolveReply(m)]
  ELSE [pc |-> "send", ret |-> 0, reply |-> ResolveReply(m)]

\* _copy_message from its entry to its first await, or to a return without
\* one: service message, already cloned, media group already dispatched.
CopyEntry(m) ==
  IF chan[m].svc THEN [pc |-> "ret", ret |-> 0, reply |-> 0]
  ELSE IF IsCloned(m) THEN [pc |-> "ret", ret |-> GetTargetMsgId(m), reply |-> 0]
  ELSE IF chan[m].grp # 0
       THEN IF chan[m].grp \in cache
            THEN [pc |-> "ret", ret |-> 0, reply |-> 0]
            ELSE [pc |-> "getgroup", ret |-> 0, reply |-> ResolveReply(m)]
  ELSE IF chan[m].poll THEN [pc |-> "sendpoll", ret |-> 0, reply |-> ResolveReply(m)]
  ELSE [pc |-> "send", ret |-> 0, reply |-> ResolveReply(m)]

\* Mutant of GroupBranch: the other members go on to the single send.
GroupBranchSendsRest(m, msgs) ==
  IF m = MinOf(msgs) THEN "copygroup" ELSE "send"

\* After get_media_group returned msgs: only the lowest-numbered member
\* submits the group, every other member returns None.
GroupBranch(m, msgs) ==
  IF m = MinOf(msgs) THEN "copygroup" ELSE "ret"

\* for src_m, tgt_m in zip(msgs, sent_msgs): set_mapping(src_m, tgt_m), the
\* sent messages having the ids first, first + 1, ...
MapGroup(st, msgs, first) ==
  [x \in Ids |-> IF x \in msgs
                 THEN first + Cardinality({y \in msgs : y < x})
                 ELSE st[x]]

\* Two coroutines inside _copy_message for the same message at once.
MarkRace(ts, t) ==
  IF InCopy(ts[t]) /\ \E u \in Tasks \ {t} : InCopy(ts[u]) /\ ts[u].msg = ts[t].msg
  THEN [u \in Tasks |-> IF InCopy(ts[u]) /\ ts[u].msg = ts[t].msg
                        THEN [ts[u] EXCEPT !.raced = TRUE] ELSE ts[u]]
  ELSE ts

\* ---------------------------------------------------------------- backfill
\* Mutant of TakeWhileAbove: the message at last_synced is collected too.
TakeWhileAtOrAbove(page, ls) ==
  SubSeq(page, 1, Cardinality({j \in DOMAIN page : \A k \in 1..j : page[k] >= ls}))

\* The async-for over one page: messages above last_synced are collected
\* until the first one at or below it.
TakeWhileAbove(page, ls) ==
  SubSeq(page, 1, Cardinality({j \in DOMAIN page : \A k \in 1..j : page[k] > ls}))

\* batch.sort(key=lambda m: m.id)
SortById(batch) == SortSeq(batch, LAMBDA a, b : a < b)

\* The for-loop over the batch from item idx on, up to the next await:
\* already cloned items are counted, skipped and advance the cursor; the
\* first other item is handed to _copy_message; an exhausted batch moves the
\* offset on and tests the safety limit.  item is the message the job handed
\* to _copy_message last, 0 once the loop has gone on to a cloned one; later
\* tells that an item was handed over after an earlier one had failed.
RECURSIVE RunBatch(_, _)
RunBatch(tk, cur) ==
  IF tk.idx > Len(tk.batch)
  THEN LET off == tk.offset + BatchSize IN
       [tk |-> [tk EXCEPT !.offset = off,
                          !.pc = IF off > ScanCap THEN "capped" ELSE "fetch"],
        cur |-> cur, call |-> NoCall]
  ELSE LET m  == tk.batch[tk.idx]
           t1 == [tk EXCEPT !.processed = @ + 1]
       IN IF IsCloned(m)
          THEN RunBatch([t1 EXCEPT !.skipped = @ + 1, !.idx = @ + 1,
                                   !.item = 0],
                        SetLastSyncedId(cur, m))
          ELSE LET e  == CopyEntry(m)
                   t2 == [t1 EXCEPT !.prevItem = m, !.item = m,
                                    !.ordered = @ /\ m > t1.prevItem,
                                    !.later = @ \/ t1.errs > 0]
               IN IF e.pc = "ret"
                  THEN [tk |-> [t2 EXCEPT !.cloned = IF e.ret # 0 THEN @ + 1 ELSE @,
                                          !.skipped = IF e.ret # 0 THEN @ ELSE @ + 1,
                                          !.idx = @ + 1, !.pc = "sleep"],
                        cur |-> SetLastSyncedId(cur, m),
                        call |-> Completed(m, e.ret, 0, FALSE)]
                  ELSE [tk |-> [t2 EXCEPT !.pc = e.pc, !.msg = m,
                                          !.reply = e.reply],
                        cur |-> cur, call |-> NoCall]

\* What backfill returns, with the history the claims read.
Result(tk, cur, capHit, fetchErr) ==
  [done |-> TRUE, processed |-> tk.processed, cloned |-> tk.cloned,
   skipped |-> tk.skipped, failed |-> tk.failed, n0 |-> tk.n0,
   maxSeen |-> tk.maxSeen, cursor |-> cur, arrived |-> tk.arrived,
   capHit |-> capHit, fetchErr |-> fetchErr,
   batches |-> tk.offset \div BatchSize, errs |-> tk.errs,
   later |-> tk.later]

\* backfill returns its counters; the media group cache is cleared.
Finish(t, tk, cur, c, capHit, fetchErr) ==
  /\ tasks' = [tasks EXCEPT ![t] = Idle]
  /\ cache' = {}
  /\ cursor' = cur
  /\ History(c, 0, ~fetchErr, Result(tk, cur, capHit, fetchErr))

\* A backfill coroutine resumed with its batch in hand.
Resume(t, tk) ==
  LET r == RunBatch(tk, cursor) IN
  IF r.tk.pc = "capped"
  THEN Finish(t, r.tk, r.cur, r.call, TRUE, FALSE)
  ELSE /\ cursor' = r.cur
       /\ tasks' = MarkRace([tasks EXCEPT ![t] = r.tk], t)
       /\ History(r.call, r.tk.msg, TRUE, NoResult)
       /\ UNCHANGED cache

\* Mutant of NextItem: a failed item ends the for-loop over the batch.
NextItemAbort(idx, ok) == IF ok THEN idx + 1 ELSE idx + MaxId + 1

\* `for msg in batch`: the loop goes on to the next item, whether the item
\* was replicated or failed.
NextItem(idx, ok) == idx + 1

\* The caller's continuation after `await _copy_message(...)` returned r (n
\* platform submissions made): the listener sets the cursor and ends; the
\* backfill counts the result, sets the cursor and sleeps 1.5 s.
AfterCopy(t, r, n, ok) ==
  LET tk == tasks[t]
      m  == tk.msg
  IN /\ cursor' = SetLastSyncedId(cursor, m)
     /\ tasks' = [tasks EXCEPT ![t] =
                    IF tk.kind = "listener" THEN Idle
                    ELSE [tk EXCEPT !.pc = "sleep", !.idx = NextItem(@, ok),
                                    !.cloned = IF r # 0 THEN @ + 1 ELSE @,
                                    !.skipped = IF r # 0 THEN @ ELSE @ + 1,
                                    !.msg = 0, !.reply = 0, !.group = {},
                                    !.raced = FALSE, !.retry = 0,
                                    !.floods = 0, !.owed = FALSE,
                                    !.errs = IF ok THEN @ ELSE @ + 1]]
     /\ History(Completed(m, r, n, tk.raced), 0, ok, NoResult)

\* The caller's continuation when `await _copy_message(...)` raised: the
\* listener logs and ends; the backfill counts the item as failed and sleeps
\* 1.5 s.  Neither sets the cursor.
AfterRaise(t) ==
  LET tk == tasks[t] IN
  /\ tasks' = [tasks EXCEPT ![t] =
                 IF tk.kind = "listener" THEN Idle
                 ELSE [tk EXCEPT !.pc = "sleep", !.idx = NextItem(@, FALSE),
                                 !.failed = @ + 1,
                                 !.msg = 0, !.reply = 0, !.group = {},
                                 !.raced = FALSE, !.retry = 0,
                                 !.floods = 0, !.owed = FALSE,
                                 !.errs = @ + 1]]
  /\ History(NoCall, 0, FALSE, NoResult)
  /\ UNCHANGED cursor

\* A call has MaxRetry + 1 attempts, each with at most two requests that
\* can be answered with FloodWait; the count of such answers stops there.
FloodCap == 2 * (MaxRetry + 1)

\* A FloodWait answer: the platform asks for a pause of e.value seconds.
Signal(tk, outcome) ==
  IF outcome = "flood"
  THEN [tk EXCEPT !.floods = Min(@ + 1, FloodCap), !.owed = TRUE]
  ELSE tk

\* ------------------------------------------------------------------ actions
\* A message (or a whole album) is posted in the source channel.
Post ==
  /\ hist < MaxId
  /\ LET nxt == hist + 1
         g   == chan[nxt].grp
     IN hist' = IF g = 0 THEN nxt
                ELSE MaxOf({x \in Ids : chan[x].grp = g})
  /\ tasks' = [t \in Tasks |-> IF tasks[t].kind = "backfill"
                               THEN [tasks[t] EXCEPT !.arrived = TRUE]
                               ELSE tasks[t]]
  /\ History(NoCall, 0, TRUE, NoResult)
  /\ UNCHANGED <<chan, store, cursor, cache, target>>
  /\ UNCHANGED <<mgr, units>>

\* handle_new_message(message) for an update of message m, up to its first
\* await (one enabled mapping for the source).
HandleNewMessage(t, m) ==
  /\ tasks[t].pc = "idle"
  /\ m \in 1..hist
  /\ LET e == CopyEntry(m) IN
     IF e.pc = "ret"
     THEN /\ cursor' = SetLastSyncedId(cursor, m)
          /\ History(Completed(m, e.ret, 0, FALSE), 0, TRUE, NoResult)
          /\ UNCHANGED tasks
     ELSE /\ tasks' = MarkRace([tasks EXCEPT ![t] =
                         [Idle EXCEPT !.pc = e.pc, !.kind = "listener",
                                      !.msg = m, !.reply = e.reply]], t)
          /\ History(NoCall, m, TRUE, NoResult)
          /\ UNCHANGED cursor
  /\ UNCHANGED <<chan, hist, store, cache, target>>
  /\ UNCHANGED <<mgr, units>>

\* backfill(source, target, start_id) up to its first await; sid = 0 stands
\* for start_id=None.
BackfillStart(t, sid) ==
  /\ tasks[t].pc = "idle"
  /\ LET ls == IF sid # 0 THEN sid - 1 ELSE GetLastSyncedId IN
     tasks' = [tasks EXCEPT ![t] =
                 [Idle EXCEPT !.pc = "fetch", !.kind = "backfill",
                              !.lastSynced = ls, !.n0 = Max(hist - ls, 0),
                              !.floor = Max(IF sid # 0 THEN sid - 1 ELSE 0,
                                            GetLastSyncedId)]]
  /\ History(NoCall, 0, TRUE, NoResult)
  /\ UNCHANGED <<chan, hist, store, cursor, cache, target>>
  /\ UNCHANGED <<mgr, units>>

\* get_chat_history(limit=batch_size, offset=offset) answers.
FetchDone(t, outcome) ==
  /\ tasks[t].pc = "fetch"
  /\ LET tk    == tasks[t]
         page  == GetChatHistory(hist, BatchSize, tk.offset)
         batch == SortById(TakeWhileAbove(page, tk.lastSynced))
     IN IF outcome = "error" THEN Finish(t, tk, cursor, NoCall, FALSE, TRUE)
        ELSE IF batch = <<>> THEN Finish(t, tk, cursor, NoCall, FALSE, FALSE)
        ELSE Resume(t, [tk EXCEPT !.batch = batch, !.idx = 1,
                                  !.maxSeen = Max(@, batch[Len(batch)])])
  /\ UNCHANGED <<chan, hist, store, target>>
  /\ UNCHANGED <<mgr, units>>

\* asyncio.sleep(1.5) after an item is over.
Wake(t) ==
  /\ tasks[t].pc = "sleep"
  /\ Resume(t, tasks[t])
  /\ UNCHANGED <<chan, hist, store, target>>
  /\ UNCHANGED <<mgr, units>>

\* get_media_group(source, message.id) answers.
GetMediaGroupDone(t, outcome) ==
  /\ tasks[t].pc = "getgroup"
  /\ LET tk   == tasks[t]
         msgs == GetMediaGroup(tk.msg)
         br   == IF outcome = "error" THEN "send" ELSE GroupBranch(tk.msg, msgs)
     IN IF br = "ret"
        THEN AfterCopy(t, 0, 0, TRUE) /\ UNCHANGED cache
        ELSE /\ tasks' = MarkRace([tasks EXCEPT ![t] =
                            [tk EXCEPT !.pc = br,
                                       !.group = IF br = "copygroup" THEN msgs ELSE {}]], t)
             /\ cache' = IF br = "copygroup" THEN cache \cup {chan[tk.msg].grp}
                         ELSE cache
             /\ History(NoCall, tk.msg, outcome = "ok", NoResult)
             /\ UNCHANGED cursor
  /\ UNCHANGED <<chan, hist, store, target>>
  /\ UNCHANGED <<mgr, units>>

\* copy_media_group(target, source, message.id, reply_to) answers; with
\* "mapfail" the group is posted and set_mapping raises in the zip loop
\* after k rows, which the inner `except Exception: pass` swallows.
CopyMediaGroupDone(t, outcome) ==
  /\ tasks[t].pc = "copygroup"
  /\ LET tk == tasks[t] IN
     IF outcome = "ok"
     THEN /\ Len(target) + Cardinality(tk.group) <= MaxPosts
          /\ target' = CopyMediaGroup(target, tk.group, tk.reply)
          /\ store' = MapGroup(store, tk.group, Len(target) + 1)
          /\ AfterCopy(t, Len(target) + 1, 1, TRUE)
     ELSE IF outcome = "mapfail"
     THEN /\ Len(target) + Cardinality(tk.group) <= MaxPosts
          /\ target' = CopyMediaGroup(target, tk.group, tk.reply)
          /\ \E k \in 0..(Cardinality(tk.group) - 1) :
               store' = MapGroup(store,
                                 {x \in tk.group :
                                    Cardinality({y \in tk.group : y < x}) < k},
                                 Len(target) + 1)
          /\ tasks' = [tasks EXCEPT ![t] =
                         [tk EXCEPT !.pc = "send", !.group = {}]]
          /\ History(NoCall, tk.msg, FALSE, NoResult)
          /\ UNCHANGED cursor
     ELSE /\ tasks' = [tasks EXCEPT ![t] =
                         [Signal(tk, outcome) EXCEPT !.pc = "send", !.group = {}]]
          /\ History(NoCall, tk.msg, FALSE, NoResult)
          /\ UNCHANGED <<store, target, cursor>>
  /\ UNCHANGED <<chan, hist, cache>>
  /\ UNCHANGED <<mgr, units>>

\* send_poll answers: whatever it raises is swallowed and the message goes
\* on to the copy_message fallback.
SendPollDone(t, outcome) ==
  /\ tasks[t].pc = "sendpoll"
  /\ LET tk == tasks[t] IN
     IF outcome = "ok"
     THEN /\ Len(target) < MaxPosts
          /\ target' = SendSingle(target, tk.msg, tk.reply)
          /\ store' = SetMapping(store, tk.msg, Len(target) + 1)
          /\ AfterCopy(t, Len(target) + 1, 1, TRUE)
     ELSE /\ tasks' = [tasks EXCEPT ![t] =
                         [Signal(tk, outcome) EXCEPT !.pc = "send"]]
          /\ History(NoCall, tk.msg, FALSE, NoResult)
          /\ UNCHANGED <<store, target, cursor>>
  /\ UNCHANGED <<chan, hist, cache>>
  /\ UNCHANGED <<mgr, units>>

\* send_message / send_photo / ... (or the copy_message fallback) answers.
\* "storefail": the message is submitted and store.set_mapping raises; the
\* generic except clause logs the error and the call returns None.
SendDone(t, outcome) ==
  /\ tasks[t].pc = "send"
  /\ LET tk == tasks[t] IN
     IF outcome = "ok"
     THEN /\ Len(target) < MaxPosts
          /\ target' = SendSingle(target, tk.msg, tk.reply)
          /\ store' = SetMapping(store, tk.msg, Len(target) + 1)
          /\ AfterCopy(t, Len(target) + 1, 1, TRUE)
     ELSE IF outcome = "storefail"
     THEN /\ Len(target) < MaxPosts
          /\ target' = SendSingle(target, tk.msg, tk.reply)
          /\ AfterCopy(t, 0, 1, FALSE)
          /\ UNCHANGED store
     ELSE IF outcome \in {"flood", "restricted"}
     THEN /\ tasks' = [tasks EXCEPT ![t] =
                         [Signal(tk, outcome) EXCEPT
                            !.pc = IF outcome = "flood" THEN "floodsleep"
                                   ELSE "bypass"]]
          /\ History(NoCall, tk.msg, FALSE, NoResult)
          /\ UNCHANGED <<store, target, cursor>>
     ELSE /\ AfterCopy(t, 0, 0, FALSE)
          /\ UNCHANGED <<store, target>>
  /\ UNCHANGED <<chan, hist, cache>>
  /\ UNCHANGED <<mgr, units>>

\* Mutant of RetryEntry: the retry goes on from where the first attempt
\* stood, past the service and is_cloned tests.
RetryEntryNoCheck(m) ==
  IF chan[m].grp # 0
  THEN IF chan[m].grp \in cache
       THEN [pc |-> "ret", ret |-> 0, reply |-> 0]
       ELSE [pc |-> "getgroup", ret |-> 0, reply |-> ResolveReply(m)]
  ELSE IF chan[m].poll THEN [pc |-> "sendpoll", ret |-> 0, reply |-> ResolveReply(m)]
  ELSE [pc |-> "send", ret |-> 0, reply |-> ResolveReply(m)]

\* return await self._copy_message(...): the retry is a call of
\* _copy_message from its entry.
RetryEntry(m) == CopyEntry(m)

\* Mutant of NextRetry: the retry count is passed on as it is.
NextRetrySame(retry) == retry

\* self._copy_message(source_chat, target_chat, message, retry_count + 1)
NextRetry(retry) == retry + 1

\* asyncio.sleep(e.value + 1) of the FloodWait handler is over: the call is
\* made again with retry_count + 1 while retry_count < 3, else it returns
\* None.
FloodWake(t) ==
  /\ tasks[t].pc = "floodsleep"
  /\ LET tk == tasks[t]
         e  == RetryEntry(tk.msg)
     IN IF tk.retry >= MaxRetry THEN AfterCopy(t, 0, 0, FALSE)
        ELSE IF e.pc = "ret" THEN AfterCopy(t, e.ret, 0, e.ret # 0)
        ELSE /\ tasks' = MarkRace([tasks EXCEPT ![t] =
                            [tk EXCEPT !.pc = e.pc, !.reply = e.reply,
                                       !.retry = NextRetry(@), !.owed = FALSE]], t)
             /\ History(NoCall, tk.msg, TRUE, NoResult)
             /\ UNCHANGED cursor
  /\ UNCHANGED <<chan, hist, store, cache, target>>
  /\ UNCHANGED <<mgr, units>>

\* _bypass_restriction (download_media, then the upload by kind) answers:
\* "ok" with the re-uploaded message recorded, "fail" with nothing sent or an
\* exception inside it, "storeerr" with the message re-uploaded and
\* set_mapping raising in the except clause of _copy_message.
BypassDone(t, outcome) ==
  /\ tasks[t].pc = "bypass"
  /\ LET tk == tasks[t] IN
     IF outcome = "fail"
     THEN /\ AfterCopy(t, 0, 0, FALSE)
          /\ UNCHANGED <<store, target>>
     ELSE /\ Len(target) < MaxPosts
          /\ target' = SendSingle(target, tk.msg, tk.reply)
          /\ IF outcome = "ok"
             THEN /\ store' = SetMapping(store, tk.msg, Len(target) + 1)
                  /\ AfterCopy(t, Len(target) + 1, 1, TRUE)
             ELSE /\ AfterRaise(t)
                  /\ UNCHANGED store
  /\ UNCHANGED <<chan, hist, cache>>
  /\ UNCHANGED <<mgr, units>>

\* The process dies and is started again: the coroutines and the media group
\* cache are gone, the sqlite store is kept.
Crash ==
  /\ tasks' = [t \in Tasks |-> Idle]
  /\ cache' = {}
  /\ History(NoCall, 0, FALSE, NoResult)
  /\ UNCHANGED <<chan, hist, store, cursor, target>>
  /\ UNCHANGED <<mgr, units>>

\* The same, the platform having executed the submission task t awaits.
CrashAfterSend(t) ==
  /\ tasks[t].pc \in {"send", "copygroup"}
  /\ LET tk == tasks[t] IN
     IF tk.pc = "send"
     THEN /\ Len(target) < MaxPosts
          /\ target' = SendSingle(target, tk.msg, tk.reply)
     ELSE /\ Len(target) + Cardinality(tk.group) <= MaxPosts
          /\ target' = CopyMediaGroup(target, tk.group, tk.reply)
  /\ tasks' = [u \in Tasks |-> Idle]
  /\ cache' = {}
  /\ History(NoCall, 0, FALSE, NoResult)
  /\ UNCHANGED <<chan, hist, store, cursor>>
  /\ UNCHANGED <<mgr, units>>

\* task.cancel() on a backfill job: CancelledError is raised at the await the
\* job is suspended in and passes every `except Exception`; nothing after
\* the await runs, the media group cache is not cleared.
Cancel(t) ==
  /\ tasks[t].kind = "backfill"
  /\ tasks[t].pc \in {"fetch", "sleep", "getgroup", "copygroup", "sendpoll",
                      "send", "floodsleep", "bypass"}
  /\ tasks' = [tasks EXCEPT ![t].pc = "cancelled"]
  /\ History(NoCall, 0, FALSE, NoResult)
  /\ UNCHANGED <<chan, hist, store, cursor, cache, target>>
  /\ UNCHANGED <<mgr, units>>

\* The same, the platform having executed the submission the job awaits.
CancelAfterSend(t) ==
  /\ tasks[t].kind = "backfill"
  /\ tasks[t].pc \in {"send", "copygroup"}
  /\ LET tk == tasks[t] IN
     IF tk.pc = "send"
     THEN /\ Len(target) < MaxPosts
          /\ target' = SendSingle(target, tk.msg, tk.reply)
     ELSE /\ Len(target) + Cardinality(tk.group) <= MaxPosts
          /\ target' = CopyMediaGroup(target, tk.group, tk.reply)
  /\ tasks' = [tasks EXCEPT ![t].pc = "cancelled"]
  /\ History(NoCall, 0, FALSE, NoResult)
  /\ UNCHANGED <<chan, hist, store, cursor, cache>>
  /\ UNCHANGED <<mgr, units>>

\* The done callback of a cancelled job drops the task.
Collected(t) ==
  /\ tasks[t].pc = "cancelled"
  /\ tasks' = [tasks EXCEPT ![t] = Idle]
  /\ History(NoCall, 0, TRUE, NoResult)
  /\ UNCHANGED <<chan, hist, store, cursor, cache, target>>
  /\ UNCHANGED <<mgr, units>>

Outcomes == {"ok", "error"}
StartIds == 0..MaxId

\* Answers of a submission: success, an error, FloodWait, a restriction error.
FaultOutcomes  == {"ok", "error", "flood", "restricted"}
BypassOutcomes == {"ok", "fail", "storeerr"}

\* A listener invocation and a backfill job interleaving at their awaits.
Next ==
  \/ Post
  \/ \E m \in Ids : HandleNewMessage("t1", m)
  \/ BackfillStart("t2", 0)
  \/ \E o \in Outcomes : FetchDone("t2", o)
  \/ Wake("t2")
  \/ \E t \in Tasks, o \in Outcomes : GetMediaGroupDone(t, o)
  \/ \E t \in Tasks, o \in Outcomes : CopyMediaGroupDone(t, o)
  \/ \E t \in Tasks, o \in Outcomes : SendDone(t, o)

Spec == Init /\ [][Next]_vars

\* One invocation at a time: every handler and job runs to its end before the
\* next one starts.
NextSeq ==
  \/ Post
  \/ \E m \in Ids : AllIdle /\ HandleNewMessage("t1", m)
  \/ \E sid \in StartIds : AllIdle /\ BackfillStart("t1", sid)
  \/ \E o \in Outcomes : FetchDone("t1", o)
  \/ Wake("t1")
  \/ \E o \in Outcomes : GetMediaGroupDone("t1", o)
  \/ \E o \in Outcomes : CopyMediaGroupDone("t1", o)
  \/ \E o \in Outcomes : SendDone("t1", o)

SpecSeq == Init /\ [][NextSeq]_vars

\* One invocation at a time, and the process may die and be restarted.
NextCrash ==
  \/ Post
  \/ \E m \in Ids : AllIdle /\ HandleNewMessage("t1", m)
  \/ AllIdle /\ BackfillStart("t1", 0)
  \/ \E o \in Outcomes : FetchDone("t1", o)
  \/ Wake("t1")
  \/ \E o \in Outcomes : GetMediaGroupDone("t1", o)
  \/ \E o \in Outcomes : CopyMediaGroupDone("t1", o)
  \/ \E o \in Outcomes : SendDone("t1", o)
  \/ Crash
  \/ CrashAfterSend("t1")

SpecCrash == Init /\ [][NextCrash]_vars

\* Backfill jobs alone, one at a time.
NextBackfill ==
  \/ Post
  \/ \E sid \in StartIds : AllIdle /\ BackfillStart("t1", sid)
  \/ \E o \in Outcomes : FetchDone("t1", o)
  \/ Wake("t1")
  \/ \E o \in Outcomes : GetMediaGroupDone("t1", o)
  \/ \E o \in Outcomes : CopyMediaGroupDone("t1", o)
  \/ \E o \in Outcomes : SendDone("t1", o)

SpecBackfill == Init /\ [][NextBackfill]_vars

\* The sleep after an item is over and store.is_cloned raises for the next
\* item of the batch: the item is counted as processed, the outer handler
\* of backfill logs the error, and backfill returns its counters.
IsClonedRaises(t) ==
  /\ tasks[t].pc = "sleep"
  /\ tasks[t].idx <= Len(tasks[t].batch)
  /\ Finish(t, [tasks[t] EXCEPT !.processed = @ + 1], cursor, NoCall,
            FALSE, FALSE)
  /\ UNCHANGED <<chan, hist, store, target>>
  /\ UNCHANGED <<mgr, units>>

\* Backfill jobs alone, one at a time, the store failing on a lookup.
NextCount ==
  \/ Post
  \/ AllIdle /\ BackfillStart("t1", 0)
  \/ \E o \in Outcomes : FetchDone("t1", o)
  \/ Wake("t1")
  \/ IsClonedRaises("t1")
  \/ \E o \in Outcomes : GetMediaGroupDone("t1", o)
  \/ \E o \in Outcomes : CopyMediaGroupDone("t1", o)
  \/ \E o \in Outcomes : SendDone("t1", o)

SpecCount == Init /\ [][NextCount]_vars

\* One invocation at a time, the platform answering submissions with
\* FloodWait and restriction errors as well.
InitFaults ==
  /\ chan \in FaultChannels
  /\ hist = 0
  /\ store = [m \in Ids |-> 0]
  /\ cursor = 0
  /\ cache = {}
  /\ target = <<>>
  /\ tasks = [t \in Tasks |-> Idle]
  /\ calls = NoCalls
  /\ called = {}
  /\ clean = TRUE
  /\ jobResult = NoResult
  /\ ManagerIdle
  /\ UnitsIdle

NextFaults ==
  \/ Post
  \/ \E m \in Ids : AllIdle /\ HandleNewMessage("t1", m)
  \/ AllIdle /\ BackfillStart("t1", 0)
  \/ \E o \in Outcomes : FetchDone("t1", o)
  \/ Wake("t1")
  \/ \E o \in Outcomes : GetMediaGroupDone("t1", o)
  \/ \E o \in FaultOutcomes : CopyMediaGroupDone("t1", o)
  \/ \E o \in FaultOutcomes : SendPollDone("t1", o)
  \/ \E o \in FaultOutcomes : SendDone("t1", o)
  \/ FloodWake("t1")
  \/ \E o \in BypassOutcomes : BypassDone("t1", o)

SpecFaults == InitFaults /\ [][NextFaults]_vars

\* Answers of copy_media_group when the store may fail in the loop after it.
GroupOutcomes == {"ok", "error", "mapfail"}

\* Backfill jobs alone, one at a time, the requests for an item answered
\* in every way: success, an error, FloodWait, a restriction error.
NextRows ==
  \/ Post
  \/ AllIdle /\ BackfillStart("t1", 0)
  \/ \E o \in Outcomes : FetchDone("t1", o)
  \/ Wake("t1")
  \/ \E o \in Outcomes : GetMediaGroupDone("t1", o)
  \/ \E o \in GroupOutcomes : CopyMediaGroupDone("t1", o)
  \/ \E o \in FaultOutcomes : SendDone("t1", o)
  \/ FloodWake("t1")
  \/ \E o \in BypassOutcomes : BypassDone("t1", o)

SpecRows == Init /\ [][NextRows]_vars

\* Answers of a submission to a job that may be cancelled.
SendOutcomes == {"ok", "error", "flood"}

\* Backfill jobs, one at a time, cancelled at any of their awaits.
NextCancel ==
  \/ Post
  \/ AllIdle /\ BackfillStart("t1", 0)
  \/ \E o \in Outcomes : FetchDone("t1", o)
  \/ Wake("t1")
  \/ \E o \in Outcomes : GetMediaGroupDone("t1", o)
  \/ \E o \in Outcomes : CopyMediaGroupDone("t1", o)
  \/ \E o \in SendOutcomes : SendDone("t1", o)
  \/ FloodWake("t1")
  \/ Cancel("t1")
  \/ CancelAfterSend("t1")
  \/ Collected("t1")

SpecCancel == Init /\ [][NextCancel]_vars

\* Backfill jobs alone, one at a time, messages arriving while they run,
\* items failing and submissions answered with FloodWait; every request and
\* every sleep of the job returns.
JobStep ==
  \/ \E o \in Outcomes : FetchDone("t1", o)
  \/ Wake("t1")
  \/ \E o \in Outcomes : GetMediaGroupDone("t1", o)
  \/ \E o \in Outcomes : CopyMediaGroupDone("t1", o)
  \/ \E o \in SendOutcomes : SendDone("t1", o)
  \/ FloodWake("t1")

NextTerm ==
  \/ Post
  \/ AllIdle /\ BackfillStart("t1", 0)
  \/ JobStep

SpecTerm == Init /\ [][NextTerm]_vars /\ WF_vars(JobStep)

\* Two invocations for the newest message at once, the second one starting
\* while the first is in flight, their submissions answered with FloodWait
\* as well; channels without albums.
InitPlain == Init /\ chan \in {Thread, Service}

NextRecheck ==
  \/ Post
  \/ \E m \in Ids : m = hist /\ HandleNewMessage("t1", m)
  \/ \E m \in Ids : m = hist /\ tasks["t1"].pc # "idle" /\ HandleNewMessage("t2", m)
  \/ \E t \in Tasks, o \in SendOutcomes : SendDone(t, o)
  \/ \E t \in Tasks : FloodWake(t)

SpecRecheck == InitPlain /\ [][NextRecheck]_vars

\* Answers of a submission when the store may fail on the write after it.
StoreOutcomes == {"ok", "error", "storefail"}

\* One invocation at a time, store.set_mapping failing after a submission.
NextStoreFail ==
  \/ Post
  \/ \E m \in Ids : AllIdle /\ HandleNewMessage("t1", m)
  \/ AllIdle /\ BackfillStart("t1", 0)
  \/ \E o \in Outcomes : FetchDone("t1", o)
  \/ Wake("t1")
  \/ \E o \in Outcomes : GetMediaGroupDone("t1", o)
  \/ \E o \in Outcomes : CopyMediaGroupDone("t1", o)
  \/ \E o \in StoreOutcomes : SendDone("t1", o)

SpecStoreFail == Init /\ [][NextStoreFail]_vars

\* Answers of a submission to a backfill job: success, an error, a
\* restriction error.
ItemOutcomes == {"ok", "error", "restricted"}

\* Backfill jobs alone, one at a time, items failing in every way
\* _copy_message can fail: returning None, or raising after a bypass.
NextContain ==
  \/ Post
  \/ AllIdle /\ BackfillStart("t1", 0)
  \/ \E o \in Outcomes : FetchDone("t1", o)
  \/ Wake("t1")
  \/ \E o \in Outcomes : GetMediaGroupDone("t1", o)
  \/ \E o \in Outcomes : CopyMediaGroupDone("t1", o)
  \/ \E o \in ItemOutcomes : SendDone("t1", o)
  \/ \E o \in BypassOutcomes : BypassDone("t1", o)

SpecContain == Init /\ [][NextContain]_vars

TypeOK ==
  /\ hist \in 0..MaxId
  /\ cursor \in 0..MaxId
  /\ Len(target) <= MaxPosts


\* ------------------------------------------------------------ mapping rules
\* Mutant of HasMapping: the rule is never found.
HasMappingNever(ms, s, t) == FALSE

\* The loop of add_mapping over the rules: one with this source and target
\* exists.
HasMapping(ms, s, t) ==
  \E i \in DOMAIN ms : ms[i].source = s /\ ms[i].target = t

\* add_mapping(source_chat, target_chat)
AddMapping(s, t) ==
  /\ mappings' = IF HasMapping(mappings, s, t) THEN mappings
                 ELSE Append(mappings, Rule(s, t, TRUE))
  /\ op' = [kind |-> "add", s |-> s, t |-> t,
            present |-> HasMapping(mappings, s, t), before |-> mappings]
  /\ UNCHANGED <<enabled, lsn, rstore, rcursor, rposts, run, updates,
                 backfillTasks, loops>>
  /\ UNCHANGED <<eng, units>>

\* remove_mapping(source_chat, target_chat)
RemoveMapping(s, t) ==
  /\ mappings' = SelectSeq(mappings,
                           LAMBDA m : ~(m.source = s /\ m.target = t))
  /\ op' = [kind |-> "remove", s |-> s, t |-> t,
            present |-> HasMapping(mappings, s, t), before |-> mappings]
  /\ UNCHANGED <<enabled, lsn, rstore, rcursor, rposts, run, updates,
                 backfillTasks, loops>>
  /\ UNCHANGED <<eng, units>>

\* is_enabled()
IsEnabled == enabled

\* set_enabled(b)
SetEnabled(b) ==
  /\ enabled # b
  /\ enabled' = b
  /\ op' = NoOp
  /\ UNCHANGED <<mappings, lsn, rstore, rcursor, rposts, run, updates,
                 backfillTasks, loops>>
  /\ UNCHANGED <<eng, units>>

\* Rule lists a configuration file may hold at start: no two rules with the
\* same source and target.
InitialRules ==
  {<<>>,
   <<Rule(1, 1, FALSE)>>,
   <<Rule(1, 1, TRUE), Rule(1, 2, TRUE)>>,
   <<Rule(1, 2, TRUE), Rule(2, 1, TRUE), Rule(1, 1, FALSE)>>}

InitRules ==
  /\ EngineIdle
  /\ mappings \in InitialRules
  /\ enabled \in BOOLEAN
  /\ op = NoOp
  /\ lsn = LsnIdle
  /\ rstore = {}
  /\ rcursor = [p \in Pairs |-> 0]
  /\ rposts = {}
  /\ run = NoRun
  /\ updates = 0
  /\ backfillTasks = [p \in Pairs |-> 0]
  /\ loops = [i \in TaskIds |-> NoLoop]
  /\ UnitsIdle

\* The rule list under add_mapping, remove_mapping and set_enabled.
NextRules ==
  \/ \E s \in Sources, t \in Targets : AddMapping(s, t)
  \/ \E s \in Sources, t \in Targets : RemoveMapping(s, t)
  \/ \E b \in BOOLEAN : SetEnabled(b)

SpecRules == InitRules /\ [][NextRules]_vars

\* ------------------------------------------------- listener over all rules
\* The loop of get_targets_for_source over the rules: the targets of the
\* enabled rules of the source, in list order.
RECURSIVE TargetsOf(_, _)
TargetsOf(ms, src) ==
  IF ms = <<>> THEN <<>>
  ELSE (IF Head(ms).enabled /\ Head(ms).source = src
        THEN <<Head(ms).target>> ELSE <<>>) \o TargetsOf(Tail(ms), src)

\* get_targets_for_source(source_chat)
GetTargetsForSource(src) ==
  IF ~IsEnabled THEN <<>> ELSE TargetsOf(mappings, src)

\* Mutant of Ignored: edited messages pass.
IgnoredOutgoingOnly(msg) == msg.outgoing

\* The early returns of handle_new_message (and of handle_channel_message)
\* on the message itself: outgoing, or edited.
Ignored(msg) == msg.outgoing \/ msg.edited

\* Mutant of NextTarget: an exception ends the loop over the targets.
NextTargetAbort(k, n, outcome) == IF outcome = "raise" THEN n + 1 ELSE k + 1

\* The for-loop over the targets goes on to the next one, the try/except
\* standing inside the loop.
NextTarget(k, n, outcome) == k + 1

Updates == [id : Ids, chat : Sources, outgoing : BOOLEAN, edited : BOOLEAN]

\* handle_new_message(message) up to its first await: the early returns,
\* the targets of the source, and the call of _copy_message for the first.
OnNewMessage(msg) ==
  /\ lsn.pc = "idle"
  /\ updates < MaxUpdates
  /\ updates' = updates + 1
  /\ LET tg == IF ~IsEnabled \/ Ignored(msg) THEN <<>>
               ELSE GetTargetsForSource(msg.chat)
     IN /\ lsn' = IF tg = <<>> THEN LsnIdle
                  ELSE [pc |-> "copy", msg |-> msg, targets |-> tg, k |-> 1]
        /\ run' = [msg |-> msg, targets |-> tg,
                   invoked |-> IF tg = <<>> THEN {} ELSE {tg[1]},
                   raised |-> {}, on |-> IsEnabled, done |-> tg = <<>>]
  /\ op' = NoOp
  /\ UNCHANGED <<mappings, enabled, rstore, rcursor, rposts, backfillTasks,
                 loops>>
  /\ UNCHANGED <<eng, units>>

\* What one call of _copy_message comes to for its caller: "id", it returns
\* a target id (the row found, or a submission made and its row written);
\* "none", it returns None with nothing submitted; "raise", the fallback
\* re-uploaded the message and set_mapping raised.
CopyOutcomes == {"id", "none", "raise"}

\* `await self._copy_message(source, target, message)` is over for the
\* current target: the cursor is set unless the call raised, and the loop
\* calls _copy_message for the next target or ends.
CopyDone(outcome) ==
  /\ lsn.pc = "copy"
  /\ LET t   == lsn.targets[lsn.k]
         key == <<lsn.msg.chat, lsn.msg.id, t>>
         n   == Len(lsn.targets)
         k2  == NextTarget(lsn.k, n, outcome)
     IN /\ key \in rstore => outcome = "id"
        /\ rstore' = IF outcome = "id" THEN rstore \cup {key} ELSE rstore
        /\ rposts' = IF (outcome = "id" /\ key \notin rstore) \/ outcome = "raise"
                     THEN rposts \cup {key} ELSE rposts
        /\ rcursor' = IF outcome = "raise" THEN rcursor
                      ELSE [rcursor EXCEPT ![<<lsn.msg.chat, t>>] = lsn.msg.id]
        /\ lsn' = IF k2 > n THEN LsnIdle ELSE [lsn EXCEPT !.k = k2]
        /\ run' = [run EXCEPT
                     !.invoked = IF k2 <= n THEN @ \cup {lsn.targets[k2]} ELSE @,
                     !.raised = IF outcome = "raise" THEN @ \cup {t} ELSE @,
                     !.done = k2 > n]
  /\ op' = NoOp
  /\ UNCHANGED <<mappings, enabled, updates, backfillTasks, loops>>
  /\ UNCHANGED <<eng, units>>

\* The listener over a fixed rule list, replication switched on and off.
NextListener ==
  \/ \E msg \in Updates : OnNewMessage(msg)
  \/ \E o \in CopyOutcomes : CopyDone(o)
  \/ \E b \in BOOLEAN : SetEnabled(b)

SpecListener == InitRules /\ [][NextListener]_vars

\* ------------------------------------------------- continuous backfill tasks
\* task.done()
TaskDone(i) == loops[i].st = "done"

\* Task numbers not used yet.
Fresh == {i \in TaskIds : loops[i].st = "none"}

\* A task that has not finished and has no cancellation pending.
Live(i) == loops[i].st \notin {"none", "done"} /\ ~loops[i].cancel

MaxWork == 2  \* submissions and store writes counted per task

\* Mutant of AlreadyRunning: the running task is never found.
AlreadyRunningNever(p) == FALSE

\* start_continuous_backfill: task_key in self.backfill_tasks and the task
\* is not done.
AlreadyRunning(p) == backfillTasks[p] # 0 /\ ~TaskDone(backfillTasks[p])

\* start_continuous_backfill(source_chat, target_chat)
StartContinuousBackfill(p) ==
  /\ IF AlreadyRunning(p) THEN UNCHANGED <<backfillTasks, loops>>
     ELSE /\ Fresh # {}
          /\ LET i == MinOf(Fresh) IN
             /\ loops' = [loops EXCEPT ![i] =
                            [NoLoop EXCEPT !.pair = p, !.st = "created"]]
             /\ backfillTasks' = [backfillTasks EXCEPT ![p] = i]
  /\ op' = NoOp
  /\ UNCHANGED <<mappings, enabled, lsn, rstore, rcursor, rposts, run, updates>>
  /\ UNCHANGED <<eng, units>>

\* Mutant of CancelAll: the tasks are forgotten without being cancelled.
CancelNone(S) == loops

\* task.cancel() on the tasks of S that are not done.
CancelAll(S) ==
  [i \in TaskIds |-> IF i \in S /\ ~TaskDone(i)
                     THEN [loops[i] EXCEPT !.cancel = TRUE] ELSE loops[i]]

\* stop_backfill(source_chat, target_chat)
StopBackfill(p) ==
  /\ IF backfillTasks[p] # 0 /\ ~TaskDone(backfillTasks[p])
     THEN /\ loops' = CancelAll({backfillTasks[p]})
          /\ backfillTasks' = [backfillTasks EXCEPT ![p] = 0]
     ELSE UNCHANGED <<backfillTasks, loops>>
  /\ op' = NoOp
  /\ UNCHANGED <<mappings, enabled, lsn, rstore, rcursor, rposts, run, updates>>
  /\ UNCHANGED <<eng, units>>

\* stop_all_backfills()
StopAllBackfills ==
  /\ loops' = CancelAll({backfillTasks[p] : p \in Pairs} \ {0})
  /\ backfillTasks' = [p \in Pairs |-> 0]
  /\ op' = NoOp
  /\ UNCHANGED <<mappings, enabled, lsn, rstore, rcursor, rposts, run, updates>>
  /\ UNCHANGED <<eng, units>>

\* _backfill_loop at `while self.is_enabled()`: its first step, or the step
\* after one of its sleeps; it awaits the next backfill or returns.
LoopTest(i) ==
  /\ loops[i].st \in {"created", "sleep", "errsleep"}
  /\ ~loops[i].cancel
  /\ loops' = [loops EXCEPT ![i].st = IF IsEnabled THEN "backfill" ELSE "done"]
  /\ op' = NoOp
  /\ UNCHANGED <<mappings, enabled, lsn, rstore, rcursor, rposts, run, updates,
                 backfillTasks>>
  /\ UNCHANGED <<eng, units>>

\* `await self.backfill(source, target)` is over: the loop sleeps 300 s, or
\* 60 s when the call raised.
CycleDone(i, outcome) ==
  /\ loops[i].st = "backfill"
  /\ ~loops[i].cancel
  /\ loops' = [loops EXCEPT ![i].st = IF outcome = "ok" THEN "sleep"
                                      ELSE "errsleep"]
  /\ op' = NoOp
  /\ UNCHANGED <<mappings, enabled, lsn, rstore, rcursor, rposts, run, updates,
                 backfillTasks>>
  /\ UNCHANGED <<eng, units>>

\* CancelledError reaches the task at the await it is suspended in (or
\* before its first step): the loop breaks and the task is done.
Cancelled(i) ==
  /\ loops[i].cancel
  /\ loops[i].st \notin {"none", "done"}
  /\ loops' = [loops EXCEPT ![i].st = "done"]
  /\ op' = NoOp
  /\ UNCHANGED <<mappings, enabled, lsn, rstore, rcursor, rposts, run, updates,
                 backfillTasks>>
  /\ UNCHANGED <<eng, units>>

\* The backfill the task awaits goes on from one of its awaits to the next,
\* having made a submission or written a row or the cursor.  A task with a
\* cancellation pending is resumed with the CancelledError instead.
CycleWork(i) ==
  /\ loops[i].st = "backfill"
  /\ ~loops[i].cancel
  /\ loops[i].work < MaxWork
  /\ loops' = [loops EXCEPT ![i].work = @ + 1]
  /\ op' = NoOp
  /\ UNCHANGED <<mappings, enabled, lsn, rstore, rcursor, rposts, run, updates,
                 backfillTasks>>
  /\ UNCHANGED <<eng, units>>

InitTasks == EngineIdle /\ ManagerIdle /\ UnitsIdle

\* The continuous backfill tasks under start, stop, stop-all and the
\* enabled flag.
NextTasks ==
  \/ \E p \in Pairs : StartContinuousBackfill(p)
  \/ \E p \in Pairs : StopBackfill(p)
  \/ StopAllBackfills
  \/ \E i \in TaskIds : LoopTest(i)
  \/ \E i \in TaskIds, o \in Outcomes : CycleDone(i, o)
  \/ \E i \in TaskIds : Cancelled(i)
  \/ \E b \in BOOLEAN : SetEnabled(b)

SpecTasks == InitTasks /\ [][NextTasks]_vars

\* The continuous backfill tasks of one pair at work, started and stopped
\* at any moment.
NextStop ==
  \/ StartContinuousBackfill(<<1, 1>>)
  \/ StopBackfill(<<1, 1>>)
  \/ StopAllBackfills
  \/ \E i \in TaskIds : LoopTest(i)
  \/ \E i \in TaskIds : CycleWork(i)
  \/ \E i \in TaskIds, o \in Outcomes : CycleDone(i, o)
  \/ \E i \in TaskIds : Cancelled(i)

SpecStop == InitTasks /\ [][NextStop]_vars

\* The pair has a rule in the list and the rule is enabled.
RuleEnabled(p) ==
  \E k \in DOMAIN mappings :
    /\ mappings[k].source = p[1] /\ mappings[k].target = p[2]
    /\ mappings[k].enabled

\* The continuous backfill tasks, started for pairs that have an enabled
\* rule, while rules are removed and the enabled flag changes.
NextLoops ==
  \/ \E p \in Pairs : RuleEnabled(p) /\ StartContinuousBackfill(p)
  \/ \E p \in Pairs : StopBackfill(p)
  \/ \E i \in TaskIds : LoopTest(i)
  \/ \E i \in TaskIds, o \in Outcomes : CycleDone(i, o)
  \/ \E i \in TaskIds : Cancelled(i)
  \/ \E b \in BOOLEAN : SetEnabled(b)
  \/ \E s \in Sources, t \in Targets : RemoveMapping(s, t)

SpecLoops == InitRules /\ [][NextLoops]_vars

\* ------------------------------------------------------ the paging loop
\* backfill(source, target, batch_size=bs) on a channel of h messages, none
\* of them synced: up to the first get_chat_history.
ScanStart(h, bs) ==
  /\ scan.pc = "idle"
  /\ scan' = [pc |-> "fetch", h |-> h, bs |-> bs, ls |-> 0, offset |-> 0,
              scanned |-> 0]
  /\ UNCHANGED <<eng, mgr, message_map, lastPut, link, bypass, submit, rewrite>>

\* One turn of `while True`: the page at the offset is collected, every
\* item of the batch is counted in stats["processed"], the offset moves on
\* by batch_size and is tested against the safety limit.
ScanBatch ==
  /\ scan.pc = "fetch"
  /\ LET batch == SortById(TakeWhileAbove(
                     GetChatHistory(scan.h, scan.bs, scan.offset), scan.ls))
         off   == scan.offset + scan.bs
     IN scan' = IF batch = <<>> THEN [scan EXCEPT !.pc = "done"]
                ELSE [scan EXCEPT !.scanned = @ + Len(batch),
                                  !.offset = off,
                                  !.pc = IF off > ScanCap THEN "capped"
                                         ELSE "fetch"]
  /\ UNCHANGED <<eng, mgr, message_map, lastPut, link, bypass, submit, rewrite>>

\* backfill has returned its counters.
ScanReturn ==
  /\ scan.pc \in {"done", "capped"}
  /\ scan' = NoScan
  /\ UNCHANGED <<eng, mgr, message_map, lastPut, link, bypass, submit, rewrite>>

InitUnits == EngineIdle /\ ManagerIdle /\ UnitsIdle

NextScan ==
  \/ \E h \in 0..MaxHistory, bs \in 1..MaxBatch : ScanStart(h, bs)
  \/ ScanBatch
  \/ ScanReturn

SpecScan == InitUnits /\ [][NextScan]_vars

\* ------------------------------------------------- table message_map
\* One row of message_map (cloned_at left out).
Row(s, m, t, tid) == [source_chat |-> s, source_msg |-> m, target_chat |-> t,
                      target_msg |-> tid]

\* PRIMARY KEY(source_chat, source_msg, target_chat)
KeyOf(r) == <<r.source_chat, r.source_msg, r.target_chat>>

RowKeys == {1} \X (1..MaxRowId) \X {1, 2}

\* Mutant of InsertOrReplace: a plain INSERT into a table without the key.
InsertOnly(tb, row) == tb \cup {row}

\* INSERT OR REPLACE: the row that conflicts on the primary key is deleted,
\* then the new row is inserted.
InsertOrReplace(tb, row) == {r \in tb : KeyOf(r) # KeyOf(row)} \cup {row}

\* SELECT target_msg ... WHERE source_chat=? AND source_msg=? AND
\* target_chat=?
SelectTargetMsg(tb, k) == {r.target_msg : r \in {x \in tb : KeyOf(x) = k}}

\* get_target_msg_id: cur.fetchone(), None (0) without a row.
TableGet(tb, k) ==
  IF SelectTargetMsg(tb, k) = {} THEN 0
  ELSE CHOOSE x \in SelectTargetMsg(tb, k) : TRUE

\* is_cloned
TableIsCloned(tb, k) == TableGet(tb, k) # 0

\* set_mapping(source_chat, source_msg, target_chat, target_msg)
StoreSetMapping(k, tid) ==
  /\ message_map' = InsertOrReplace(message_map, Row(k[1], k[2], k[3], tid))
  /\ lastPut' = [key |-> k, tid |-> tid, before |-> message_map]
  /\ UNCHANGED <<eng, mgr, scan, link, bypass, submit, rewrite>>

NextStore ==
  \E k \in RowKeys, tid \in 1..MaxTid : StoreSetMapping(k, tid)

SpecStore == InitUnits /\ [][NextStore]_vars

\* ------------------------------------------------- helpers/external.py
\* A text is a sequence of tokens: a scheme with its "://", a host label, a
\* dot, a slash, a path segment, a word, a blank, a punctuation mark.  The
\* patterns are matched token by token as `re` matches them character by
\* character.
Schemes == {<<"http://">>, <<"https://">>}
Www     == <<"www", ".">>

YouTube    == <<"youtube", ".", "com">>
YouTuBe    == <<"youtu", ".", "be">>
Instagram  == <<"instagram", ".", "com">>
Pinterest  == <<"pin", "terest", ".", "com">>
PinIt      == <<"pin", ".", "it">>
Example    == <<"example", ".", "com">>
PinExample == <<"pin", ".", "example", ".", "com">>

Blanks == {" "}

Opt(x)    == {<<>>, x}
Cat(A, B) == {a \o b : a \in A, b \in B}

\* SUPPORTED_PATTERNS: each pattern as the literal prefixes it allows, to be
\* followed by \S+.
SupportedPatterns ==
  << Cat(Cat(Schemes, Opt(Www)), {<<"youtube", ".", "com", "/">>}),
     Cat(Schemes, {<<"youtu", ".", "be", "/">>}),
     Cat(Cat(Schemes, Opt(Www)), {<<"instagram", ".", "com", "/">>}),
     Cat(Cat(Cat(Cat(Schemes, Opt(Www)), {<<"pin">>}), Opt(<<"terest">>)),
         {<<".">>}),
     Cat(Cat(Schemes, Opt(Www)), {<<"pin", ".", "it", "/">>}) >>

\* The tokens of lits stand in text from position i on.
HasAt(text, i, lits) ==
  /\ i + Len(lits) - 1 <= Len(text)
  /\ \A k \in 1..Len(lits) : text[i + k - 1] = lits[k]

\* \S+ from position i: the number of tokens up to the next blank.
NonSpaceRun(text, i) ==
  Cardinality({j \in i..Len(text) : \A k \in i..j : text[k] \notin Blanks})

\* The end of the match of pattern pat that starts at position i, 0 when
\* there is none.
MatchEnd(pat, text, i) ==
  LET ls == {l \in pat : /\ HasAt(text, i, l)
                         /\ NonSpaceRun(text, i + Len(l)) >= 1}
  IN IF ls = {} THEN 0
     ELSE LET l == CHOOSE x \in ls : TRUE
          IN i + Len(l) + NonSpaceRun(text, i + Len(l)) - 1

\* p.search(text): m.group(0) of the leftmost match, <<>> without a match.
Search(pat, text) ==
  LET starts == {i \in 1..Len(text) : MatchEnd(pat, text, i) # 0}
  IN IF starts = {} THEN <<>>
     ELSE SubSeq(text, MinOf(starts), MatchEnd(pat, text, MinOf(starts)))

\* is_supported_url(url)
IsSupportedUrl(url) ==
  \E n \in DOMAIN SupportedPatterns : Search(SupportedPatterns[n], url) # <<>>

\* The characters of rstrip(').,;\n\r') a match can end in.
Trailing == {")", ".", ",", ";"}

\* url.rstrip(').,;\n\r')
RECURSIVE RStrip(_)
RStrip(u) ==
  IF u # <<>> /\ u[Len(u)] \in Trailing THEN RStrip(SubSeq(u, 1, Len(u) - 1))
  ELSE u

\* extract_supported_url(text); None is <<>>.
ExtractSupportedUrl(text) ==
  LET hits == {n \in DOMAIN SupportedPatterns :
                 Search(SupportedPatterns[n], text) # <<>>}
  IN IF text = <<>> \/ hits = {} THEN <<>>
     ELSE RStrip(Search(SupportedPatterns[MinOf(hits)], text))

\* The hosts the helpers are documented to support, and the URLs and texts
\* they are given.
SupportedHosts == {YouTube, YouTuBe, Instagram, Pinterest, PinIt}
UrlHosts       == SupportedHosts \cup {Example, PinExample}
UrlPaths       == {<<"/", "x">>, <<"/", "x", "/", "y">>, <<"/", "x", ".", "y">>}
Url(s, w, h, path) == s \o w \o h \o path
PlainUrl(h)    == Url(<<"https://">>, <<>>, h, <<"/", "x">>)
Word           == <<"see">>
TextHosts      == SupportedHosts \cup {Example, Word}
Part(h)        == IF h = Word THEN Word ELSE PlainUrl(h)
Mids           == {<<" ">>, <<",", " ">>}
Tails          == {<<>>, <<".">>, <<")", ".">>, <<" ", "ok">>}

\* is_supported_url is called on a URL.
CheckUrl(s, w, h, path) ==
  /\ link = NoLink
  /\ link' = [op |-> "check", text |-> Url(s, w, h, path), hosts |-> <<w \o h>>,
              supported |-> IsSupportedUrl(Url(s, w, h, path)), url |-> <<>>]
  /\ UNCHANGED <<eng, mgr, scan, message_map, lastPut, bypass, submit, rewrite>>

\* extract_supported_url is called on a text of two parts, each a URL or a
\* word.
ExtractFrom(h1, h2, mid, tail) ==
  /\ link = NoLink
  /\ LET text == Part(h1) \o mid \o Part(h2) \o tail
     IN link' = [op |-> "extract", text |-> text, hosts |-> <<h1, h2>>,
                 supported |-> FALSE, url |-> ExtractSupportedUrl(text)]
  /\ UNCHANGED <<eng, mgr, scan, message_map, lastPut, bypass, submit, rewrite>>

\* The helper has returned.
UrlReturn ==
  /\ link # NoLink
  /\ link' = NoLink
  /\ UNCHANGED <<eng, mgr, scan, message_map, lastPut, bypass, submit, rewrite>>

NextUrls ==
  \/ UrlReturn
  \/ \E s \in Schemes, w \in Opt(Www), h \in UrlHosts, path \in UrlPaths :
       CheckUrl(s, w, h, path)
  \/ \E h1 \in TextHosts, h2 \in TextHosts, mid \in Mids, tail \in Tails :
       ExtractFrom(h1, h2, mid, tail)

SpecUrls == InitUnits /\ [][NextUrls]_vars

\* ------------------------------------------------- _bypass_restriction
\* The download-and-re-upload fallback taken on its own: two callers (the
\* listener and a backfill) may run it at once, for the same message too;
\* the file name is downloads/{source}_{message.id}, one per message.
MaxFile == 2  \* message ids 1..MaxFile whose media is downloaded

\* The kinds the re-upload has a branch for, and one it has none for.
UploadKinds == {"photo", "video", "document", "audio", "voice", "video_note",
                "animation", "sticker"}
BypassKinds == {"photo", "sticker", "other"}

DownloadOutcomes == {"path", "none", "raise", "cancel"}
UploadOutcomes   == {"ok", "none", "raise", "cancel"}

\* Mutant of Cleanup: the file is left behind.
CleanupKeep(disk, path, name) == disk

\* finally: if path and os.path.exists(path): os.remove(path)
Cleanup(disk, path, name) ==
  IF path /\ name \in disk THEN disk \ {name} ELSE disk

\* What _bypass_restriction gives its caller: sent.id, None, or the
\* CancelledError passing through.
BypassResult(outcome) ==
  CASE outcome = "ok"     -> "id"
    [] outcome = "cancel" -> "cancelled"
    [] OTHER              -> "none"

\* The call ends: the finally block runs, then the return (or the raise).
BypassEnd(c, r, outcome) ==
  bypass' = [run  |-> [bypass.run EXCEPT ![c] =
                         [r EXCEPT !.pc = "returned", !.last = outcome,
                                   !.ret = BypassResult(outcome)]],
             disk |-> Cleanup(bypass.disk, r.path, r.msg)]

\* _bypass_restriction(message) up to `await download_media(...)`.
BypassCall(c, m, k) ==
  /\ bypass.run[c].pc = "idle"
  /\ bypass' = [bypass EXCEPT !.run[c] =
                  [NoBypassCall EXCEPT !.pc = "download", !.msg = m,
                                       !.kind = k]]
  /\ UNCHANGED <<eng, mgr, scan, message_map, lastPut, link, submit, rewrite>>

\* download_media returns the path of the file it wrote, returns None,
\* raises, or the task is cancelled while it waits.  With a path the upload
\* of the message's kind is awaited; a kind without a branch leaves sent at
\* None and the call ends.
DownloadDone(c, outcome) ==
  LET r == bypass.run[c] IN
  /\ r.pc = "download"
  /\ IF outcome = "path"
     THEN LET r1 == [r EXCEPT !.path = TRUE, !.had = TRUE]
              d1 == bypass.disk \cup {r.msg}
          IN IF r.kind \in UploadKinds
             THEN bypass' = [run  |-> [bypass.run EXCEPT ![c] =
                                         [r1 EXCEPT !.pc = "upload"]],
                             disk |-> d1]
             ELSE bypass' = [run  |-> [bypass.run EXCEPT ![c] =
                                         [r1 EXCEPT !.pc = "returned",
                                                    !.last = "none"]],
                             disk |-> Cleanup(d1, TRUE, r.msg)]
     ELSE BypassEnd(c, r, outcome)
  /\ UNCHANGED <<eng, mgr, scan, message_map, lastPut, link, submit, rewrite>>

\* The upload returns the sent message, returns None, raises, or the task
\* is cancelled while it waits.
UploadDone(c, outcome) ==
  /\ bypass.run[c].pc = "upload"
  /\ BypassEnd(c, bypass.run[c], outcome)
  /\ UNCHANGED <<eng, mgr, scan, message_map, lastPut, link, submit, rewrite>>

\* The caller goes on.
BypassReturn(c) ==
  /\ bypass.run[c].pc = "returned"
  /\ bypass' = [bypass EXCEPT !.run[c] = NoBypassCall]
  /\ UNCHANGED <<eng, mgr, scan, message_map, lastPut, link, submit, rewrite>>

NextBypass ==
  \/ \E c \in Callers, m \in 1..MaxFile, k \in BypassKinds : BypassCall(c, m, k)
  \/ \E c \in Callers, o \in DownloadOutcomes : DownloadDone(c, o)
  \/ \E c \in Callers, o \in UploadOutcomes : UploadDone(c, o)
  \/ \E c \in Callers : BypassReturn(c)

SpecBypass == InitUnits /\ [][NextBypass]_vars

\* ------------------------------------- _copy_message, the branch by kind
\* The submission of one message outside a media group, taken on its own.
\* A message has exactly one of the content kinds; a poll has a question and
\* at least two options, the platform having no other.
Kinds == {"poll", "contact", "location", "venue", "dice", "text", "photo",
          "video", "audio", "voice", "video_note", "animation", "document",
          "sticker"}

\* The request each branch of the if/elif chain makes; "none" where the
\* chain has no branch for the kind or the branch makes no request.
KindOperation(k) ==
  CASE k = "poll"       -> "send_poll"
    [] k = "text"       -> "send_message"
    [] k = "document"   -> "send_document"
    [] k = "photo"      -> "send_photo"
    [] k = "video"      -> "send_video"
    [] k = "audio"      -> "send_audio"
    [] k = "voice"      -> "send_voice"
    [] k = "video_note" -> "send_video_note"
    [] k = "animation"  -> "send_animation"
    [] k = "sticker"    -> "send_sticker"
    [] k = "contact"    -> "send_contact"
    [] k = "location"   -> "send_location"
    [] k = "venue"      -> "send_venue"
    [] OTHER            -> "none"

\* The request a message of kind k is created with in the target channel.
CreateOperation(k) ==
  IF k = "dice" THEN "send_dice" ELSE KindOperation(k)

SubmitOutcomes == {"sent", "none", "raise"}

\* if sent is None: sent = await copy_message(...)
Fallback(sb) ==
  [sb EXCEPT !.pc = "copy", !.ops = Append(@, "copy_message")]

\* _copy_message(message) up to its first request.
SubmitCall(m, k) ==
  /\ submit.pc = "idle"
  /\ submit' =
       LET sb == [NoSubmit EXCEPT !.msg = m, !.kind = k]
           o  == KindOperation(k)
       IN IF o = "none" THEN Fallback(sb)
          ELSE [sb EXCEPT !.pc = "kind", !.ops = <<o>>]
  /\ UNCHANGED <<eng, mgr, scan, message_map, lastPut, link, bypass, rewrite>>

\* The request of the kind's branch returns the sent message, returns None,
\* or raises: send_poll's exception is swallowed and leaves sent at None,
\* any other goes to the handlers at the end of _copy_message.
KindDone(outcome) ==
  /\ submit.pc = "kind"
  /\ submit' =
       CASE outcome = "sent" -> [submit EXCEPT !.pc = "returned", !.ret = "id"]
         [] outcome = "none" -> Fallback(submit)
         [] OTHER -> IF submit.kind = "poll" THEN Fallback(submit)
                     ELSE [submit EXCEPT !.pc = "returned"]
  /\ UNCHANGED <<eng, mgr, scan, message_map, lastPut, link, bypass, rewrite>>

\* copy_message returns the sent message, returns None, or raises.
CopyMessageDone(outcome) ==
  /\ submit.pc = "copy"
  /\ submit' = [submit EXCEPT !.pc = "returned",
                              !.ret = IF outcome = "sent" THEN "id" ELSE "none"]
  /\ UNCHANGED <<eng, mgr, scan, message_map, lastPut, link, bypass, rewrite>>

\* The caller goes on.
SubmitReturn ==
  /\ submit.pc = "returned"
  /\ submit' = NoSubmit
  /\ UNCHANGED <<eng, mgr, scan, message_map, lastPut, link, bypass, rewrite>>

NextSubmit ==
  \/ \E m \in Ids, k \in Kinds : SubmitCall(m, k)
  \/ \E o \in SubmitOutcomes : KindDone(o)
  \/ \E o \in SubmitOutcomes : CopyMessageDone(o)
  \/ SubmitReturn

SpecSubmit == InitUnits /\ [][NextSubmit]_vars

\* --------------------------------------------------------- _rewrite_links
\* A text or caption is a sequence of parts: a deep link t.me/c/<channel>/<id>
\* to the source channel or to another one, or a word without a link.
MaxParts == 2  \* parts of a text or caption

DeepLink(ch, k) == [chan |-> ch, id |-> k]
PlainWord       == [chan |-> "none", id |-> 0]

Texts ==
  LET P == {DeepLink(ch, k) : ch \in {"source", "other"}, k \in 1..MaxRowId}
             \cup {PlainWord}
  IN UNION {[1..n -> P] : n \in 1..MaxParts}

\* The rows of the pair in message_map: source id -> target id (0: no row).
PairRows == [1..MaxRowId -> 0..MaxTid]

\* pattern.sub(replace_match, text) on one part: the pattern matches the
\* links whose channel is the source; replace_match gives the link to the
\* target channel with the mapped id, or the original link without a row.
ReplaceMatch(p, rows) ==
  IF p.chan = "source" /\ rows[p.id] # 0
  THEN DeepLink("target", rows[p.id])
  ELSE p

\* _rewrite_links(text, source_chat, target_chat)
RewriteLinks(text, rows) ==
  IF text = <<>> THEN text
  ELSE IF \E i \in DOMAIN text : text[i].chan = "source"
       THEN [i \in DOMAIN text |-> ReplaceMatch(text[i], rows)]
       ELSE text

\* _copy_message on a message with a text or caption, the rows of the pair
\* being as given: a member of a media group goes out through
\* copy_media_group, which takes the captions from the source messages; any
\* other message is sent with the rewritten text or caption.
RewriteCall(text, rows, grouped) ==
  /\ rewrite.pc = "idle"
  /\ rewrite' = [pc |-> "sent", grouped |-> grouped, rows |-> rows,
                 text |-> text,
                 out |-> IF grouped THEN text ELSE RewriteLinks(text, rows)]
  /\ UNCHANGED <<eng, mgr, scan, message_map, lastPut, link, bypass, submit>>

\* The caller goes on.
RewriteReturn ==
  /\ rewrite.pc = "sent"
  /\ rewrite' = NoRewrite
  /\ UNCHANGED <<eng, mgr, scan, message_map, lastPut, link, bypass, submit>>

NextRewrite ==
  \/ \E tx \in Texts, rows \in PairRows, g \in BOOLEAN : RewriteCall(tx, rows, g)
  \/ RewriteReturn

SpecRewrite == InitUnits /\ [][NextRewrite]_vars

\* ------------------------------------------------------------------ claims
Posts(m)     == {i \in DOMAIN target : target[i].src = m}
AlbumMembers == {m \in Ids : chan[m].grp # 0}
GroupPosts   == {i \in DOMAIN target : target[i].kind = "group"
                                       /\ target[i].src = MinOf(AlbumMembers)}
SinglePosts  == {i \in DOMAIN target : target[i].kind = "single"
                                       /\ target[i].src \in AlbumMembers}
ReplyOf(i)   == chan[target[i].src].reply

C2_NoDuplicatePost ==
  \A m \in Ids : Cardinality(Posts(m)) <= 1

\* C3: when two calls of _copy_message for the same message overlap and the
\* platform fails no request, the message is submitted at most once and both
\* calls return the same target id.
C3_RaceShortCircuits ==
  (clean /\ calls[2] # NoCall /\ calls[1].raced /\ calls[2].raced) =>
    /\ Cardinality(Posts(calls[2].msg)) <= 1
    /\ calls[2].ret = calls[1].ret

\* C4: the cursor of the pair never decreases.
C4_CursorMonotone == [][cursor' >= cursor]_vars

\* C5: within one backfill job, no message arriving while it runs, the items
\* handed to _copy_message have strictly increasing ids over the whole job.
C5_StrictlyIncreasing ==
  \A t \in Tasks : ~tasks[t].arrived => tasks[t].ordered

\* C6: once _copy_message has completed on every member of an album, no
\* platform request having failed, the album was submitted as one group
\* exactly once, every member has its row and no member was sent singly.
C6_GroupAtomic ==
  (clean /\ AlbumMembers # {} /\ called = AlbumMembers) =>
    /\ Cardinality(GroupPosts) = 1
    /\ \A m \in AlbumMembers : IsCloned(m)
    /\ SinglePosts = {}

C6_Witness ==
  /\ clean
  /\ Cardinality(AlbumMembers) = 3
  /\ called = AlbumMembers
  /\ Cardinality(GroupPosts) = 1
  /\ Cardinality({GetTargetMsgId(m) : m \in AlbumMembers}) = 3

\* C7: a copy of a reply B made after the replied-to message A got its row
\* carries the target id mapped for A as its reply target.
C7_ReplyInOrder ==
  \A i \in DOMAIN target :
    (ReplyOf(i) # 0 /\ IsCloned(ReplyOf(i)) /\ GetTargetMsgId(ReplyOf(i)) < i)
      => target[i].reply = GetTargetMsgId(ReplyOf(i))

C7_Witness ==
  \E i \in DOMAIN target :
    /\ ReplyOf(i) # 0
    /\ IsCloned(ReplyOf(i))
    /\ target[i].reply = GetTargetMsgId(ReplyOf(i))

\* C8: a copy of a reply B made while the replied-to message A has no row is
\* a top-level message, and B has its row all the same.
C8_ReplyOutOfOrder ==
  \A i \in DOMAIN target :
    (ReplyOf(i) # 0 /\ (~IsCloned(ReplyOf(i)) \/ GetTargetMsgId(ReplyOf(i)) > i))
      => target[i].reply = 0 /\ IsCloned(target[i].src)

C8_Witness ==
  \E i \in DOMAIN target :
    /\ ReplyOf(i) # 0
    /\ ~IsCloned(ReplyOf(i))
    /\ target[i].reply = 0
    /\ GetTargetMsgId(target[i].src) = i

\* A backfill returned normally: the safety limit was not reached, no
\* history request failed and no message arrived while it ran.
Returned ==
  /\ jobResult.done
  /\ ~jobResult.capHit
  /\ ~jobResult.fetchErr
  /\ ~jobResult.arrived

C10_FinalCursor ==
  (Returned /\ jobResult.maxSeen > 0) => jobResult.cursor = jobResult.maxSeen

\* C11: after a submission was answered with FloodWait, no further submission
\* for the message is made before the signaled delay has been waited.
C11_WaitsBeforeRetry ==
  \A t \in Tasks :
    tasks[t].pc \in {"copygroup", "sendpoll", "send", "bypass"} => ~tasks[t].owed

\* C12: one call of _copy_message, retries included, has at most
\* MaxRetry + 1 submissions answered with FloodWait.
C12_BoundedRetry ==
  \A t \in Tasks : tasks[t].floods <= MaxRetry + 1

\* C13: a backfill scans only messages above max(start_id - 1, cursor).
C13_StartPosition ==
  \A t \in Tasks : \A j \in DOMAIN tasks[t].batch :
    tasks[t].batch[j] > tasks[t].floor

\* C14: when a backfill is done with an item it handed to _copy_message,
\* the cursor is at that item's id, whatever _copy_message did.
C14_CursorFollowsItem ==
  \A t \in Tasks :
    (tasks[t].kind = "backfill" /\ tasks[t].pc = "sleep")
      => cursor = tasks[t].prevItem

\* C15: the failed counter of a backfill counts the items whose replication
\* failed.
C15_FailedCounted ==
  \A t \in Tasks : tasks[t].kind = "backfill" => tasks[t].failed = tasks[t].errs

\* No two rules of the list have the same source and target.
NoDuplicateRule ==
  \A i, j \in DOMAIN mappings :
    (mappings[i].source = mappings[j].source
       /\ mappings[i].target = mappings[j].target) => i = j

\* C19: no two rules with the same (source, target) coexist, and add_mapping
\* for a pair that has a rule leaves the rule list as it was.
C19_RulesUnique ==
  /\ NoDuplicateRule
  /\ (op.kind = "add" /\ op.present) => mappings = op.before

C19_Witness ==
  /\ op.kind = "add"
  /\ op.present
  /\ Len(mappings) >= 2
  /\ \E i \in DOMAIN mappings : mappings[i] = Rule(op.s, op.t, FALSE)

\* The targets of the enabled rules whose source is the chat of the message
\* the last handle_new_message invocation was given.
RuleTargets ==
  {mappings[i].target : i \in {j \in DOMAIN mappings :
      mappings[j].enabled /\ mappings[j].source = run.msg.chat}}

\* A handle_new_message invocation for a new message, replication being
\* enabled, has returned.
Handled == run.done /\ run.on /\ ~run.msg.outgoing /\ ~run.msg.edited

\* C16: after the listener handled a new message, _copy_message was called
\* for every enabled rule of the source and the cursor of each of these
\* pairs is at the message's id, whatever the call came to.
C16_ListenerCursor ==
  Handled => \A t \in RuleTargets :
               /\ t \in run.invoked
               /\ rcursor[<<run.msg.chat, t>>] = run.msg.id

\* C17: _copy_message is called for every target of the message, whichever
\* of the calls raised.
C17_FanOutIsolation ==
  Handled => run.invoked = RuleTargets

C17_Witness ==
  /\ Handled
  /\ Len(run.targets) >= 2
  /\ run.targets[1] \in run.raised
  /\ run.invoked = RuleTargets

\* C18: handle_new_message for an edited or an outgoing message starts no
\* call of _copy_message, submits nothing and leaves the rows and the
\* cursors as they were.
C18_FilteredNoEffect ==
  [][(updates' # updates /\ (run'.msg.outgoing \/ run'.msg.edited))
       => /\ lsn' = lsn
          /\ rstore' = rstore
          /\ rcursor' = rcursor
          /\ rposts' = rposts]_vars

C18_Witness ==
  /\ run.done
  /\ run.on
  /\ run.msg.edited \/ run.msg.outgoing
  /\ RuleTargets # {}
  /\ run.invoked = {}
  /\ rstore # {}

\* C20: of the continuous backfill tasks of a pair at most one is working,
\* and it is the one backfill_tasks holds for the pair.
C20_SingleTask ==
  /\ \A p \in Pairs :
       Cardinality({i \in TaskIds : loops[i].pair = p /\ Live(i)}) <= 1
  /\ \A i \in TaskIds : Live(i) => backfillTasks[loops[i].pair] = i

C20_Witness ==
  \E i, j \in TaskIds :
    /\ i # j
    /\ loops[i].pair = loops[j].pair
    /\ loops[i].cancel /\ loops[i].st = "backfill"
    /\ Live(j) /\ loops[j].st = "backfill"


\* C22: at every await of a backfill job, and after a cancellation landed
\* there, the mapping write and the cursor write of the item the job handed
\* to _copy_message last have both happened or neither: while the call is
\* suspended the item has no row, and once it has a row the cursor is at
\* the item's id.
C22_WritesTogether ==
  \A t \in Tasks :
    tasks[t].kind = "backfill" =>
      /\ tasks[t].msg # 0 => ~IsCloned(tasks[t].msg)
      /\ (tasks[t].item # 0 /\ IsCloned(tasks[t].item))
           => cursor = tasks[t].item

\* A cancellation landed in the sleep after an item was replicated, and one
\* landed while a submission was in flight.
C22_Witness ==
  \E t \in Tasks :
    /\ tasks[t].pc = "cancelled"
    /\ tasks[t].item # 0 /\ IsCloned(tasks[t].item)
    /\ cursor = tasks[t].item

\* C23: one backfill call scans at most the cap of history items in total,
\* whatever the batch size.
C23_ScanCapped == scan.scanned <= ScanCap

\* C24: a _copy_message call that submitted its message and could not
\* record the mapping does not return None: no completed call has made a
\* submission and returned absent.
C24_StoreErrorSurfaced ==
  \A k \in 1..2 :
    calls[k] # NoCall => ~(calls[k].sent > 0 /\ calls[k].ret = 0)

C26_Upsert ==
  /\ \A r1, r2 \in message_map : KeyOf(r1) = KeyOf(r2) => r1 = r2
  /\ lastPut # NoPut =>
       /\ TableGet(message_map, lastPut.key) = lastPut.tid
       /\ TableIsCloned(message_map, lastPut.key)
       /\ \A k \in RowKeys \ {lastPut.key} :
            {r \in message_map : KeyOf(r) = k}
              = {r \in lastPut.before : KeyOf(r) = k}

\* A second set_mapping for a key overwrote a different value, the table
\* holding a row of another key.
C26_Witness ==
  /\ lastPut # NoPut
  /\ TableIsCloned(lastPut.before, lastPut.key)
  /\ TableGet(lastPut.before, lastPut.key) # lastPut.tid
  /\ \E k \in RowKeys \ {lastPut.key} : TableIsCloned(message_map, k)

\* C27: is_supported_url answers True for a URL whose host is one of
\* youtube.com, youtu.be, instagram.com, pinterest.com, pin.it, and False
\* for a URL on any other host (no side is taken on the www. form of a
\* supported host).
C27_SupportedHosts ==
  link.op = "check" =>
    /\ link.hosts[1] \in SupportedHosts => link.supported
    /\ link.hosts[1] \notin SupportedHosts \cup Cat({Www}, SupportedHosts)
         => ~link.supported

\* The parts of the text that are URLs on a supported host, in text order.
SupportedIn(hs) == SelectSeq(hs, LAMBDA h : h \in SupportedHosts)

\* C28: extract_supported_url returns None for a text without a supported
\* URL, and otherwise the first supported URL in text order, without the
\* punctuation that follows it.
C28_FirstInText ==
  link.op = "extract" =>
    link.url = IF SupportedIn(link.hosts) = <<>> THEN <<>>
               ELSE PlainUrl(SupportedIn(link.hosts)[1])

\* Message m has been handed to _copy_message or found cloned: in a run
\* without a platform error or crash a plain message (no service message,
\* no album member) that was examined has its row, or its call is still in
\* flight.
Examined(m) == IsCloned(m) \/ \E t \in Tasks : tasks[t].msg = m

\* C29: every plain message of the source with an id at or below the cursor
\* has been examined for the pair; the cursor never stands past a message
\* nothing has examined.
C29_CursorCoverage ==
  clean => \A m \in 1..cursor :
             (~chan[m].svc /\ chan[m].grp = 0) => Examined(m)

\* C30: once _copy_message has completed on every member of an album,
\* either every member has a row or none has.
C30_AlbumAllOrNothing ==
  (AlbumMembers # {} /\ called = AlbumMembers) =>
    \/ \A m \in AlbumMembers : IsCloned(m)
    \/ \A m \in AlbumMembers : ~IsCloned(m)


\* C31: the media group cache is an optimisation only: when no call is
\* running and the cache answers None for an album member that has no row,
\* the same call with the cache emptied (the group lookup succeeding)
\* answers None as well, writing and submitting nothing.
C31_CacheIsOptimisation ==
  AllIdle =>
    \A m \in 1..hist :
      (chan[m].grp # 0 /\ ~IsCloned(m) /\ chan[m].grp \in cache)
        => GroupBranch(m, GetMediaGroup(m)) = "ret"

\* C32: _copy_message on a service message returns None before its first
\* await: no coroutine is ever suspended inside a call for a service
\* message, no submission is made for one, no row is written for one, and
\* every completed call for one returned None having submitted nothing.
C32_ServiceUntouched ==
  \A m \in Ids :
    chan[m].svc =>
      /\ store[m] = 0
      /\ Posts(m) = {}
      /\ \A t \in Tasks : ~(InCopy(tasks[t]) /\ tasks[t].msg = m)
      /\ \A i \in 1..2 :
           calls[i].msg = m => calls[i].ret = 0 /\ calls[i].sent = 0

\* A call for a service message has completed.
C32_Witness ==
  \E i \in 1..2 : calls[i].msg # 0 /\ chan[calls[i].msg].svc

C34_KindSpecific ==
  \A i \in DOMAIN submit.ops : submit.ops[i] = CreateOperation(submit.kind)

\* C35: in the text or caption a replicated message arrives with, a link to
\* source message k points at the target channel and the id mapped for k
\* exactly when a row for k exists, and every other part is as in the
\* source.
C35_LinksRewritten ==
  rewrite.pc = "sent" =>
    /\ Len(rewrite.out) = Len(rewrite.text)
    /\ \A i \in DOMAIN rewrite.text :
         LET p == rewrite.text[i] IN
         IF p.chan = "source" /\ rewrite.rows[p.id] # 0
         THEN rewrite.out[i] = DeepLink("target", rewrite.rows[p.id])
         ELSE rewrite.out[i] = p

\* C36: stop_backfill and stop_all_backfills cancel the task they take out
\* of the registry, whether it is inside a backfill or in one of its
\* waits; a task with the cancellation pending makes no further submission
\* or write and enters no further backfill cycle.
C36_CancelStops ==
  [][\A i \in TaskIds :
       /\ (\E p \in Pairs : backfillTasks[p] = i /\ backfillTasks'[p] = 0
                            /\ ~TaskDone(i))
            => loops'[i].cancel
       /\ loops[i].cancel
            => /\ loops'[i].work = loops[i].work
               /\ loops'[i].st \in {loops[i].st, "done"}
               /\ loops'[i].cancel]_vars

\* A task was cancelled inside a backfill after it had done work, and
\* another in its wait.
C36_Witness ==
  /\ \E i \in TaskIds : loops[i].cancel /\ loops[i].st = "backfill"
                        /\ loops[i].work > 0
  /\ \E i \in TaskIds : loops[i].cancel /\ loops[i].st = "sleep"

\* C37: a row for message m is written only in the step in which a
\* submission answers, with the id of a target message that this
\* submission made for m; and a call that returns None for a message that
\* had no row when the call began (no other call running) has written no
\* row for it.
C37_NoPhantomRows ==
  [][/\ \A m \in Ids :
          store'[m] # store[m] =>
            /\ store'[m] \in (DOMAIN target') \ (DOMAIN target)
            /\ target'[store'[m]].src = m
     /\ \A t \in Tasks :
          (/\ tasks[t].pc \in {"getgroup", "copygroup", "sendpoll", "send",
                               "floodsleep", "bypass"}
           /\ tasks'[t].pc = "sleep"
           /\ tasks'[t].skipped = tasks[t].skipped + 1)
            => store'[tasks[t].msg] = 0]_vars

\* C38: the counters backfill returns satisfy
\* processed = cloned + skipped + failed.
C38_CountersAddUp ==
  jobResult.done =>
    jobResult.processed = jobResult.cloned + jobResult.skipped + jobResult.failed

C40_RetryRechecks ==
  [][\A t \in Tasks :
       (/\ tasks[t].pc = "floodsleep" /\ tasks[t].retry < MaxRetry
        /\ store[tasks[t].msg] # 0
        /\ tasks'[t].pc # "floodsleep")
         => /\ target' = target
            /\ store' = store
            /\ tasks'[t].pc \in {"idle", "sleep"}
            /\ LET c == IF calls'[2] # NoCall THEN calls'[2] ELSE calls'[1]
               IN c.msg = tasks[t].msg /\ c.ret = store[tasks[t].msg]
                  /\ c.sent = 0]_vars

\* A call sleeps after a FloodWait, a retry left, and another call has
\* recorded a row for its message.
C40_Witness ==
  \E t \in Tasks :
    /\ tasks[t].pc = "floodsleep" /\ tasks[t].retry < MaxRetry
    /\ store[tasks[t].msg] # 0

\* C21: a continuous task starts a backfill cycle only while its pair has an
\* enabled mapping rule: once the rule is disabled or removed, no further
\* cycle starts.
C21_StopsWithRule ==
  [][\A i \in TaskIds :
       (loops[i].st # "backfill" /\ loops'[i].st = "backfill")
         => RuleEnabled(loops[i].pair)]_vars

=============================================================================
